---- MODULE Spec2Model ----
(***************************************************************************)
(* Association scoring engine of ccal/analyze.py:                          *)
(* rank_features_against_reference and compute_against_reference.          *)
(*                                                                         *)
(* A pandas DataFrame is a record of its index (sequence of row labels),   *)
(* its columns (sequence of column labels) and its cell values; a Series   *)
(* is a record of its index and values.  Row labels are integers, and the  *)
(* "lexicographic" order of labels is the integer order.                   *)
(* Fractions are kept exact: a p-value is its numerator over the           *)
(* denominator the code divides by, a q-value is a pair <<num, den>>.      *)
(***************************************************************************)
EXTENDS Integers, Sequences, FiniteSets, TLC

\* ---------------------------------------------------------------- bounds
NFeat == 3          \* rows of the caller's feature matrix
NCols == 4          \* columns of the caller's feature matrix
MaxVal == 1         \* cell and reference values are 0..MaxVal
MaxPerms == 2       \* n_perms is 1..MaxPerms
MaxSamplings == 2   \* n_samplings is 0..MaxSamplings

FeatIds == 1..NFeat
Columns == 1..NCols
\* the reference may carry one sample that the matrix does not have
Names == 1..(NCols + 1)
Values == 0..MaxVal

\* Every real cell of the model is >= 0; the two markers are kept apart from
\* the real cells by their sign.
NaN == -1         \* a missing cell
None == -2        \* a column the table does not have, an argument not read yet

\* ------------------------------------------------------- generic helpers
Range(s) == {s[k] : k \in DOMAIN s}

IsInjective(s) == \A a, b \in DOMAIN s : s[a] = s[b] => a = b

\* every ordering of 1..n, for each length a table of the model can have
PermutationsOf ==
    [n \in 0..(IF NCols > NFeat THEN NCols ELSE NFeat) |->
        {s \in [1..n -> 1..n] : IsInjective(s)}]

RECURSIVE SumSeq(_)
SumSeq(s) == IF s = <<>> THEN 0 ELSE s[1] + SumSeq(Tail(s))

Reverse(s) == [k \in 1..Len(s) |-> s[Len(s) + 1 - k]]

\* s[:n] and s[-n:] of a Python sequence, n >= 1
Head_n(s, n) == SubSeq(s, 1, IF n < Len(s) THEN n ELSE Len(s))
Tail_n(s, n) == SubSeq(s, IF n < Len(s) THEN Len(s) - n + 1 ELSE 1, Len(s))

Min2(a, b) == IF a <= b THEN a ELSE b

\* ascending sort of a sequence of integers
RECURSIVE InsertSorted(_, _)
InsertSorted(x, s) ==
    IF s = <<>> THEN <<x>>
    ELSE IF x <= s[1] THEN <<x>> \o s
    ELSE <<s[1]>> \o InsertSorted(x, Tail(s))

RECURSIVE SortInts(_)
SortInts(s) == IF s = <<>> THEN <<>> ELSE InsertSorted(s[1], SortInts(Tail(s)))

RECURSIVE SetToSortedSeq(_)
SetToSortedSeq(S) ==
    IF S = {} THEN <<>>
    ELSE LET m == CHOOSE x \in S : \A y \in S : x <= y
         IN <<m>> \o SetToSortedSeq(S \ {m})

\* --------------------------------------------------------- the metric
\* information_coefficient lives in ccal/information.py; the engine treats it
\* as an injected function of two equal-length vectors, paired by position.
information_coefficient(x, y) ==
    SumSeq([k \in 1..Len(x) |-> x[k] * y[k]])

\* a variant that accepts every name
MetricAccepted_Any(metric) == TRUE

\* `metric is 'information_coef'`: an identity test on a str object
MetricAccepted(metric) ==
    metric.name = "information_coef" /\ metric.same_object

\* ------------------------------------------------ pandas building blocks
\* the values of row f of a DataFrame, in the order of its columns
RowOf(df, f) == [k \in 1..Len(df.columns) |-> df.values[f][df.columns[k]]]

\* the values of a Series, in the order of its index
SeriesValues(sr) == [k \in 1..Len(sr.index) |-> sr.values[sr.index[k]]]

\* (features != 0).any(axis=1)
AnyNonZero(df, f) == \E k \in 1..Len(df.columns) : df.values[f][df.columns[k]] # 0

\* a variant that sorts upwards whatever direction is asked for
SortValues_Upwards(table, asc) ==
    LET n == Len(table)
        ok(p) == \A k \in 1..(n - 1) : table[p[k]].metric <= table[p[k + 1]].metric
    IN {[k \in 1..n |-> table[p[k]]] : p \in {q \in PermutationsOf[n] : ok(q)}}

\* DataFrame.sort_values(metric, ascending): every order of the rows that is
\* sorted by the metric column (the sort is not stable, ties land anywhere)
SortValues(table, asc) ==
    LET n == Len(table)
        ok(p) == \A k \in 1..(n - 1) :
                    IF asc THEN table[p[k]].metric <= table[p[k + 1]].metric
                           ELSE table[p[k]].metric >= table[p[k + 1]].metric
    IN {[k \in 1..n |-> table[p[k]]] : p \in {q \in PermutationsOf[n] : ok(q)}}

\* Series.quantile(num/den) times den, linear interpolation between the two
\* order statistics around position (n-1)*num/den
QuantileTimesDen(vals, num, den) ==
    LET sorted == SortInts(vals)
        pos == (Len(vals) - 1) * num
        lo == (pos \div den) + 1
        fr == pos % den
        hi == IF fr = 0 THEN lo ELSE lo + 1
    IN sorted[lo] * den + (sorted[hi] - sorted[lo]) * fr

MetricColumn(table) == [k \in 1..Len(table) |-> table[k].metric]
IndexOf(table) == [k \in 1..Len(table) |-> table[k].name]

\* ------------------------------------------------------ selection policy

\* a variant that takes the first 2n rows
CountSelection_First2n(index, n) == Head_n(index, 2 * n)

\* index[:n].tolist() + index[-n:].tolist()
CountSelection(index, n) == Head_n(index, n) \o Tail_n(index, n)

\* a variant with strict comparisons against the two quantiles
QuantileSelection_Strict(table, index, num, den) ==
    LET col == MetricColumn(table)
        qhi == QuantileTimesDen(col, num, den)
        qlo == QuantileTimesDen(col, den - num, den)
        mask == [k \in 1..Len(table) |->
                    col[k] * den > qhi \/ col[k] * den < qlo]
        RECURSIVE Pick(_)
        Pick(k) == IF k > Len(index) THEN <<>>
                   ELSE (IF mask[k] THEN <<index[k]>> ELSE <<>>) \o Pick(k + 1)
    IN Pick(1)

\* index[above_quantile | below_quantile].tolist(), the mask taken row by row
\* of `table` and applied to `index` (both have the rows in the same order)
QuantileSelection(table, index, num, den) ==
    LET col == MetricColumn(table)
        qhi == QuantileTimesDen(col, num, den)
        qlo == QuantileTimesDen(col, den - num, den)
        mask == [k \in 1..Len(table) |->
                    col[k] * den >= qhi \/ col[k] * den <= qlo]
        RECURSIVE Pick(_)
        Pick(k) == IF k > Len(index) THEN <<>>
                   ELSE (IF mask[k] THEN <<index[k]>> ELSE <<>>) \o Pick(k + 1)
    IN Pick(1)

\* nfeatures < 1 picks the quantile rule, otherwise the count rule
Select(table, index, nf) ==
    IF nf.kind = "quantile"
    THEN QuantileSelection(table, index, nf.num, nf.den)
    ELSE CountSelection(index, nf.n)

\* ------------------------------------------------------------ bootstrap
\* math.ceil(0.632 * features.shape[1])
SampleSize(ncols) == (632 * ncols + 999) \div 1000

\* a variant that asks for three samplings, as the log message words it
BootstrapSkipped_Below3(nsampling, nsample) == nsampling < 3 \/ nsample < 3

\* nsampling < 2, or nsample < 3: the bootstrap is not run
BootstrapSkipped(nsampling, nsample) == nsampling < 2 \/ nsample < 3

\* a variant that resamples the feature row only and scores it against the
\* leading values of the reference
SampledScore_RefNotResampled(df, sr, f, sample_indices) ==
    information_coefficient(
        [k \in 1..Len(sample_indices) |-> df.values[f][sample_indices[k]]],
        [k \in 1..Len(sample_indices) |-> sr.values[sr.index[k]]])

\* function(s, sampled_ref) for row f: the feature values and the reference
\* values are both taken at the labels of sample_indices, in that order
SampledScore(df, sr, f, sample_indices) ==
    information_coefficient(
        [k \in 1..Len(sample_indices) |-> df.values[f][sample_indices[k]]],
        [k \in 1..Len(sample_indices) |-> sr.values[sample_indices[k]]])

\* z_critical * (s.std() / sqrt(s.size)) of one row of replicate scores.  The
\* cell keeps n*(n-1)*std^2 = n*sum(x^2) - sum(x)^2, from which the margin
\* follows by the same increasing map for every row (z_critical and n are
\* shared by all rows).
MarginOfError(s) ==
    Len(s) * SumSeq([k \in 1..Len(s) |-> s[k] * s[k]]) - SumSeq(s) * SumSeq(s)

\* a variant that fills the margin of an unmatched row with 0
MergeOuter_ZeroFill(rows, ci) ==
    LET keys == SetToSortedSeq(Range(IndexOf(rows)) \cup Range(IndexOf(ci)))
        left(key) == SelectSeq(rows, LAMBDA r : r.name = key)
        right(key) == SelectSeq(ci, LAMBDA r : r.name = key)
        joined(key) ==
            IF right(key) = <<>>
            THEN [k \in 1..Len(left(key)) |-> [left(key)[k] EXCEPT !.moe = 0]]
            ELSE [k \in 1..(Len(left(key)) * Len(right(key))) |->
                    [left(key)[((k - 1) \div Len(right(key))) + 1]
                        EXCEPT !.moe = right(key)[((k - 1) % Len(right(key))) + 1].moe]]
        RECURSIVE Cat(_)
        Cat(k) == IF k > Len(keys) THEN <<>> ELSE joined(keys[k]) \o Cat(k + 1)
    IN Cat(1)

\* pd.merge(scores, confidence_intervals, how='outer', left_index=True,
\* right_index=True): the keys come out sorted, a key of the left table is
\* paired with every row of the right table that carries it, and a key the
\* right table lacks keeps its row with a missing margin
MergeOuter(rows, ci) ==
    LET keys == SetToSortedSeq(Range(IndexOf(rows)) \cup Range(IndexOf(ci)))
        left(key) == SelectSeq(rows, LAMBDA r : r.name = key)
        right(key) == SelectSeq(ci, LAMBDA r : r.name = key)
        joined(key) ==
            IF right(key) = <<>>
            THEN [k \in 1..Len(left(key)) |-> [left(key)[k] EXCEPT !.moe = NaN]]
            ELSE [k \in 1..(Len(left(key)) * Len(right(key))) |->
                    [left(key)[((k - 1) \div Len(right(key))) + 1]
                        EXCEPT !.moe = right(key)[((k - 1) % Len(right(key))) + 1].moe]]
        RECURSIVE Cat(_)
        Cat(k) == IF k > Len(keys) THEN <<>> ELSE joined(keys[k]) \o Cat(k + 1)
    IN Cat(1)

\* ---------------------------------------------------------- permutation
\* sum(null_row > score): the numerator of the p-value over the denominator
\* the code divides by
CountGreater(nulls, score) == Cardinality({k \in DOMAIN nulls : nulls[k] > score})

\* a variant without the floor
Floored_NoFloor(count) == count

\* "if not pval: pval = 1 / n"
Floored(count) == IF count = 0 THEN 1 ELSE count

\* permutation_scores[i, :] > score, i the position of the row in `scores`
LocalPval(permutation_scores, i, score) ==
    Floored(CountGreater(permutation_scores[i], score))

\* permutation_scores.flatten() > score
RECURSIVE Flatten(_)
Flatten(m) == IF m = <<>> THEN <<>> ELSE m[1] \o Flatten(Tail(m))

\* a variant that counts the null scores below the true score
GlobalPval_Below(permutation_scores, score) ==
    LET nulls == Flatten(permutation_scores)
    IN Floored(Cardinality({k \in 1..Len(nulls) : nulls[k] < score}))

\* a variant that also counts the null scores equal to the true score
GlobalPval_GreaterEqual(permutation_scores, score) ==
    Floored(Cardinality({k \in DOMAIN Flatten(permutation_scores) :
                            Flatten(permutation_scores)[k] >= score}))

GlobalPval(permutation_scores, score) ==
    Floored(CountGreater(Flatten(permutation_scores), score))

\* ------------------------------------------------------------------ FDR
RECURSIVE GCD(_, _)
GCD(a, b) == IF b = 0 THEN a ELSE GCD(b, a % b)

Frac(a, b) == <<a \div GCD(a, b), b \div GCD(a, b)>>
FracLeq(x, y) == x[1] * y[2] <= y[1] * x[2]
FracMin(x, y) == IF FracLeq(x, y) THEN x ELSE y

\* a variant without the running minimum
BenjaminiHochberg_NoRunningMin(nums, den) ==
    LET n == Len(nums)
        sorted == SortInts(nums)
        raw(i) == Frac(sorted[i] * n, i * den)
        clip(x) == FracMin(x, <<1, 1>>)
        rank(k) == CHOOSE i \in 1..n : sorted[i] = nums[k]
    IN [k \in 1..n |-> clip(raw(rank(k)))]

\* multipletests(pvals, method='fdr_bh')[1] for the p-values nums[k] / den:
\* sorted ascending, p * n / rank, running minimum from the largest rank
\* down, clipped at 1, and handed back in the order of the input
BenjaminiHochberg(nums, den) ==
    LET n == Len(nums)
        sorted == SortInts(nums)
        raw(i) == Frac(sorted[i] * n, i * den)
        RECURSIVE acc(_)
        acc(i) == IF i = n THEN raw(n) ELSE FracMin(raw(i), acc(i + 1))
        clip(x) == FracMin(x, <<1, 1>>)
        rank(k) == CHOOSE i \in 1..n : sorted[i] = nums[k]
    IN [k \in 1..n |-> clip(acc(rank(k)))]

\* ---------------------------------------------------------------- state
VARIABLES
    pc,                    \* where the call is
    args,                  \* the keyword arguments of the call
    features_ascending,    \* the argument read by the final sort only
    caller,                \* the caller's own features and ref objects
    features,              \* local `features`
    ref,                   \* local `ref`
    scores,                \* local `scores`: [columns, rows]
    indices_to_bootstrap,
    sampled_scores,        \* rows [name, samples], one per bootstrap index
    shuffled_ref,
    permutation_scores,    \* one row of null scores per row of `features`
    permutation_pvals_and_fdrs,
    indices_to_plot,
    metric_calls,          \* invocations of the metric function so far
    random_draws,          \* draws from np.random so far, in this call
    np_random,             \* the process-wide generator behind np.random
    invocation,            \* 1 for the first call of the process, 2 for the next
    first_result           \* what the first call ended with: its table and
                           \* the reference as it cut and ordered it

vars == <<pc, args, features_ascending, caller, features, ref, scores, indices_to_bootstrap,
          sampled_scores, shuffled_ref, permutation_scores,
          permutation_pvals_and_fdrs, indices_to_plot, metric_calls,
          random_draws, np_random, invocation, first_result>>

NoTable == [columns |-> {}, rows |-> <<>>]
NoFrame == [index |-> <<>>, columns |-> <<>>, values |-> <<>>]
NoSeries == [index |-> <<>>, values |-> <<>>]
NoResult == [scores |-> NoTable, ref |-> NoSeries]

\* ------------------------------------------------------------ np.random
\* the generator of a process that never called np.random.seed: nothing is
\* known about what it gives
Unseeded == [seeded |-> FALSE, stream |-> <<>>, pos |-> 0]

\* the draws one process makes in two calls of at most MaxSamplings
\* replicates and one permutation each
MaxStream == 2 * (MaxSamplings + 1)

\* a seeded generator is the stream its seed fixes and the number of draws
\* taken from it; the streams explored make each draw one of two outcomes
Seeded == [seeded : {TRUE}, stream : [1..MaxStream -> {0, 1}], pos : {0}]

\* np.random.choice(columns, n): n labels drawn with replacement
Choice(generator, columns, n) ==
    IF ~generator.seeded
    THEN [1..n -> Range(columns)]
    ELSE {[k \in 1..n |->
              columns[IF generator.stream[generator.pos + 1] = 0
                      THEN ((k - 1) % Len(columns)) + 1
                      ELSE Len(columns) - ((k - 1) % Len(columns))]]}

\* np.random.shuffle of n cells: the cell that lands at each position
Shuffle(generator, n) ==
    IF ~generator.seeded
    THEN PermutationsOf[n]
    ELSE {IF generator.stream[generator.pos + 1] = 0
          THEN [k \in 1..n |-> (k % n) + 1]
          ELSE [k \in 1..n |-> n + 1 - k]}

\* the generator after one draw
Advance(generator) ==
    IF generator.seeded THEN [generator EXCEPT !.pos = @ + 1] ELSE generator

\* ------------------------------------------------------- inputs explored
\* a row with MaxVal in the two cells that start at column `start`; a start
\* past the last column gives an all-zero row
Block(start) == [c \in Columns |-> IF c = start \/ c = start + 1 THEN MaxVal ELSE 0]

\* the caller's matrices: row f holds the block that starts (f + shift)
\* columns to the right, wrapping around after the all-zero row
Matrices ==
    {[f \in FeatIds |-> Block(((f + shift) % (NCols + 1)) + 1)] : shift \in 0..NCols}

\* the order of the row labels in the caller's matrix
IndexOrders == {[k \in FeatIds |-> k], [k \in FeatIds |-> NFeat + 1 - k]}

\* the labels of the caller's reference: all the matrix's columns, all but
\* the first plus a foreign one, or only the foreign one
RefIndexes ==
    {[k \in 1..NCols |-> k], [k \in 1..NCols |-> k + 1], <<NCols + 1>>}

\* the caller's reference: 0 on the first half of the samples, MaxVal after
RefValues == {[c \in Names |-> IF c > NCols \div 2 THEN MaxVal ELSE 0]}

Metrics ==
    {[name |-> "information_coef", same_object |-> TRUE],
     [name |-> "information_coef", same_object |-> FALSE],
     [name |-> "pearson", same_object |-> FALSE]}

\* n_features: a count, or a quantile num/den (0.95 is the default)
NFeatures ==
    {[kind |-> "count", n |-> n] : n \in 1..2} \cup
    {[kind |-> "quantile", num |-> 1, den |-> 2],
     [kind |-> "quantile", num |-> 19, den |-> 20]}

\* the comparison_direction keyword of a call: left out, or one of the two
\* directions
Directions == {"greater_is_better", "less_is_better"}
NotPassed == "not passed"

\* the keywords of the signature: comparison_direction is not one of them
KeywordsAccepted(a) == a.comparison_direction = NotPassed

\* the calls explored: every combination of the arguments with the metric
\* the code accepts, and one call for each metric it rejects and for each
\* comparison_direction
Arguments ==
    {a \in [metric : Metrics, n_features : NFeatures,
            n_samplings : 0..MaxSamplings, n_perms : 1..MaxPerms,
            ref_sort : BOOLEAN,
            comparison_direction : Directions \cup {NotPassed}] :
        \/ MetricAccepted(a.metric) /\ a.comparison_direction = NotPassed
        \/ /\ a.n_features = [kind |-> "quantile", num |-> 19, den |-> 20]
           /\ a.n_samplings = MaxSamplings
           /\ a.n_perms = MaxPerms
           /\ a.ref_sort
           /\ MetricAccepted(a.metric) \/ a.comparison_direction = NotPassed}

Init ==
    /\ pc = "rank"
    /\ args \in Arguments
    /\ features_ascending = None
    /\ \E order \in IndexOrders, m \in Matrices, ri \in RefIndexes, rv \in RefValues :
          /\ \/ Range(ri) \cap Columns = {}
             \/ \E f \in FeatIds : \E c \in Range(ri) \cap Columns : m[f][c] # 0
          /\ caller = [features |-> [index |-> order,
                                     columns |-> [k \in 1..NCols |-> k],
                                     values |-> m],
                       ref |-> [index |-> ri, values |-> rv]]
    /\ features = caller.features
    /\ ref = caller.ref
    /\ scores = NoTable
    /\ indices_to_bootstrap = <<>>
    /\ sampled_scores = <<>>
    /\ shuffled_ref = <<>>
    /\ permutation_scores = <<>>
    /\ permutation_pvals_and_fdrs = <<>>
    /\ indices_to_plot = <<>>
    /\ metric_calls = 0
    /\ random_draws = 0
    /\ np_random = Unseeded
    /\ invocation = 1
    /\ first_result = NoResult

\* -------------------------------------------- rank_features_against_reference
\* the iteration orders of the set col_intersection that are explored
SetOrders(S) == {SetToSortedSeq(S), Reverse(SetToSortedSeq(S))}

\* ref.sort_values(ascending=ref_ascending), ref_ascending left at False
SortRef(sr) ==
    LET n == Len(sr.index)
        ok(o) == \A k \in 1..(n - 1) : sr.values[o[k]] >= sr.values[o[k + 1]]
    IN {o \in {[k \in 1..n |-> sr.index[p[k]]] : p \in PermutationsOf[n]} : ok(o)}

\* features.ix[(features != 0).any(axis=1)]
DropZeroRows(df) == SelectSeq(df.index, LAMBDA f : AnyNonZero(df, f))

\* a variant that leaves the columns where they were
ReindexAxis_Skipped(df, labels) == df

\* features.reindex_axis(ref.index, axis=1): the columns in the order of labels
ReindexAxis(df, labels) == [df EXCEPT !.columns = labels]

\* lines 178-182: a keyword the signature does not have, TypeError at the call
RankTypeError ==
    /\ pc = "rank"
    /\ ~KeywordsAccepted(args)
    /\ pc' = "raised"
    /\ UNCHANGED <<np_random, invocation, first_result, args, features_ascending,
                   caller, features, ref, scores, indices_to_bootstrap,
                   sampled_scores, shuffled_ref, permutation_scores,
                   permutation_pvals_and_fdrs, indices_to_plot, metric_calls,
                   random_draws>>

\* lines 213-217: no common column, ValueError
RankRaise ==
    /\ pc = "rank"
    /\ KeywordsAccepted(args)
    /\ Range(features.columns) \cap Range(ref.index) = {}
    /\ pc' = "raised"
    /\ UNCHANGED <<np_random, invocation, first_result, args, features_ascending, caller, features, ref, scores, indices_to_bootstrap,
                   sampled_scores, shuffled_ref, permutation_scores,
                   permutation_pvals_and_fdrs, indices_to_plot, metric_calls,
                   random_draws>>

\* lines 213-230: restrict to the common columns, drop the all-zero rows,
\* sort the reference and realign the columns
RankPrepare ==
    /\ pc = "rank"
    /\ KeywordsAccepted(args)
    /\ LET col_intersection == Range(features.columns) \cap Range(ref.index)
       IN /\ col_intersection # {}
          /\ \E order \in SetOrders(col_intersection) :
                LET restricted == [features EXCEPT !.columns = order]
                    kept == [restricted EXCEPT !.index = DropZeroRows(restricted)]
                    cut == [ref EXCEPT !.index = order]
                IN IF args.ref_sort
                   THEN \E sorted \in SortRef(cut) :
                           /\ ref' = [cut EXCEPT !.index = sorted]
                           /\ features' = ReindexAxis(kept, sorted)
                   ELSE /\ ref' = cut
                        /\ features' = kept
    /\ pc' = "compute"
    /\ UNCHANGED <<np_random, invocation, first_result, args, features_ascending, caller, scores, indices_to_bootstrap, sampled_scores,
                   shuffled_ref, permutation_scores, permutation_pvals_and_fdrs,
                   indices_to_plot, metric_calls, random_draws>>

\* -------------------------------------------------- compute_against_reference
\* lines 295-299: scores[i] = function(s, ref) for the i-th row of features
TrueScores(df, sr) ==
    [k \in 1..Len(df.index) |->
        [name |-> df.index[k],
         metric |-> information_coefficient(RowOf(df, df.index[k]), SeriesValues(sr)),
         moe |-> None, local |-> None, global |-> None, fdr |-> None]]

\* lines 287-291: unknown metric, ValueError
ComputeRaise ==
    /\ pc = "compute"
    /\ ~MetricAccepted(args.metric)
    /\ pc' = "raised"
    /\ UNCHANGED <<np_random, invocation, first_result, args, features_ascending, caller, features, ref, scores, indices_to_bootstrap,
                   sampled_scores, shuffled_ref, permutation_scores,
                   permutation_pvals_and_fdrs, indices_to_plot, metric_calls,
                   random_draws>>

\* lines 287-300: score every row and sort the table by the metric
ComputeScores ==
    /\ pc = "compute"
    /\ MetricAccepted(args.metric)
    /\ \E sorted \in SortValues(TrueScores(features, ref), TRUE) :
          scores' = [columns |-> {"metric"}, rows |-> sorted]
    /\ metric_calls' = metric_calls + Len(features.index)
    /\ pc' = "scored"
    /\ UNCHANGED <<np_random, invocation, first_result, args, features_ascending, caller, features, ref, indices_to_bootstrap,
                   sampled_scores, shuffled_ref, permutation_scores,
                   permutation_pvals_and_fdrs, indices_to_plot, random_draws>>

nsample == SampleSize(Len(features.columns))

\* lines 302-307: too few samplings or samples, no bootstrap
BootstrapSkip ==
    /\ pc = "scored"
    /\ BootstrapSkipped(args.n_samplings, nsample)
    /\ pc' = "permute"
    /\ UNCHANGED <<np_random, invocation, first_result, args, features_ascending, caller, features, ref, scores, indices_to_bootstrap,
                   sampled_scores, shuffled_ref, permutation_scores,
                   permutation_pvals_and_fdrs, indices_to_plot, metric_calls,
                   random_draws>>

\* lines 309-323: choose the rows to bootstrap
BootstrapSelect ==
    /\ pc = "scored"
    /\ ~BootstrapSkipped(args.n_samplings, nsample)
    /\ indices_to_bootstrap' =
          Select(scores.rows, IndexOf(scores.rows), args.n_features)
    /\ sampled_scores' =
          [k \in 1..Len(indices_to_bootstrap') |->
              [name |-> indices_to_bootstrap'[k], samples |-> <<>>]]
    /\ pc' = "bootstrap"
    /\ UNCHANGED <<np_random, invocation, first_result, args, features_ascending, caller, features, ref, scores, shuffled_ref,
                   permutation_scores, permutation_pvals_and_fdrs,
                   indices_to_plot, metric_calls, random_draws>>

\* the replicates drawn so far (the loop variable c)
Replicates == Len(sampled_scores[1].samples)

\* lines 324-329: one replicate, nsample columns drawn with replacement
BootstrapReplicate ==
    /\ pc = "bootstrap"
    /\ Replicates < args.n_samplings
    /\ \E replicate \in
              {[k \in 1..Len(sampled_scores) |->
                   SampledScore(features, ref, sampled_scores[k].name, sample_indices)] :
               sample_indices \in Choice(np_random, features.columns, nsample)} :
          sampled_scores' =
              [k \in 1..Len(sampled_scores) |->
                  [sampled_scores[k] EXCEPT !.samples = Append(@, replicate[k])]]
    /\ metric_calls' = metric_calls + Len(indices_to_bootstrap)
    /\ random_draws' = random_draws + 1
    /\ np_random' = Advance(np_random)
    /\ UNCHANGED <<invocation, first_result, pc, args, features_ascending, caller, features, ref, scores, indices_to_bootstrap,
                   shuffled_ref, permutation_scores, permutation_pvals_and_fdrs,
                   indices_to_plot>>

\* lines 331-337: one margin per row of sampled_scores
confidence_intervals ==
    [k \in 1..Len(sampled_scores) |->
        [name |-> sampled_scores[k].name,
         moe |-> MarginOfError(sampled_scores[k].samples)]]

\* lines 331-338: the margins, merged into the score table (the replicate
\* table is not read again)
ConfidenceIntervals ==
    /\ pc = "bootstrap"
    /\ Replicates = args.n_samplings
    /\ scores' = [columns |-> scores.columns \cup {"MoE"},
                  rows |-> MergeOuter(scores.rows, confidence_intervals)]
    /\ sampled_scores' = <<>>
    /\ pc' = "permute"
    /\ UNCHANGED <<np_random, invocation, first_result, args, features_ascending, caller, features, ref, indices_to_bootstrap,
                   shuffled_ref, permutation_scores, permutation_pvals_and_fdrs,
                   indices_to_plot, metric_calls, random_draws>>

\* a variant that hands out a view on the buffer of ref (np.asarray)
NpArray_View(sr) == [values |-> SeriesValues(sr), copy |-> FALSE]

\* np.array(ref): a new array with the values of ref
NpArray(sr) == [values |-> SeriesValues(sr), copy |-> TRUE]

\* the Series after an in-place write of `values` to an array on its buffer
WriteThrough(sr, values) ==
    [sr EXCEPT !.values =
        [c \in DOMAIN sr.values |->
            IF \E k \in 1..Len(sr.index) : sr.index[k] = c
            THEN values[CHOOSE k \in 1..Len(sr.index) : sr.index[k] = c]
            ELSE sr.values[c]]]

\* the permutations done so far (the loop variable i)
PermsDone ==
    IF permutation_scores = <<>> THEN 0 ELSE Len(permutation_scores[1])

\* lines 343-349: shuffle the copy of the reference values in place and score
\* every row of features against it
Permute ==
    /\ pc = "permute"
    /\ PermsDone < args.n_perms
    /\ LET before == IF PermsDone = 0 THEN NpArray(ref).values ELSE shuffled_ref
       IN \E shuffled \in {[k \in 1..Len(before) |-> before[p[k]]] :
                              p \in Shuffle(np_random, Len(before))} :
             /\ shuffled_ref' = shuffled
             /\ ref' = IF NpArray(ref).copy THEN ref ELSE WriteThrough(ref, shuffled)
             /\ permutation_scores' =
                   [j \in 1..Len(features.index) |->
                       (IF PermsDone = 0 THEN <<>> ELSE permutation_scores[j]) \o
                       <<information_coefficient(RowOf(features, features.index[j]),
                                                 shuffled_ref')>>]
    /\ metric_calls' = metric_calls + Len(features.index)
    /\ random_draws' = random_draws + 1
    /\ np_random' = Advance(np_random)
    /\ UNCHANGED <<invocation, first_result, pc, args, features_ascending, caller, features, scores, indices_to_bootstrap,
                   sampled_scores, permutation_pvals_and_fdrs, indices_to_plot>>

\* lines 341-342: the frame of NaN cells, one row per row of features
EmptyPvals ==
    [k \in 1..Len(features.index) |->
        [name |-> features.index[k], local |-> NaN, global |-> NaN, fdr |-> NaN]]

\* lines 353-362: the rows of `scores` are walked in order; the i-th one
\* writes the cells of the frame row that carries its label
RECURSIVE FillPvals(_, _)
FillPvals(frame, i) ==
    IF i > Len(scores.rows) THEN frame
    ELSE LET f == scores.rows[i]
             filled == [k \in 1..Len(frame) |->
                          IF frame[k].name = f.name
                          THEN [frame[k] EXCEPT
                                  !.local = LocalPval(permutation_scores, i, f.metric),
                                  !.global = GlobalPval(permutation_scores, f.metric)]
                          ELSE frame[k]]
         IN FillPvals(filled, i + 1)

\* lines 351-362: the p-values; permutation_scores[i, :] past the last row of
\* features is an IndexError (the shuffled copy and the null scores are not
\* read again)
PValues ==
    /\ pc = "permute"
    /\ PermsDone = args.n_perms
    /\ IF Len(scores.rows) > Len(features.index)
       THEN /\ pc' = "raised"
            /\ UNCHANGED permutation_pvals_and_fdrs
       ELSE /\ pc' = "pvalues"
            /\ permutation_pvals_and_fdrs' = FillPvals(EmptyPvals, 1)
    /\ shuffled_ref' = <<>>
    /\ permutation_scores' = <<>>
    /\ UNCHANGED <<np_random, invocation, first_result, args, features_ascending, caller, features, ref, scores,
                   indices_to_bootstrap, sampled_scores, indices_to_plot,
                   metric_calls, random_draws>>

\* lines 364-365: the FDR column, cell k from the k-th global p-value
WithFDR(frame) ==
    LET q == BenjaminiHochberg([k \in 1..Len(frame) |-> frame[k].global],
                               args.n_perms * Len(features.index))
    IN [k \in 1..Len(frame) |-> [frame[k] EXCEPT !.fdr = q[k]]]

\* pd.merge(scores, permutation_pvals_and_fdrs, left_index=True,
\* right_index=True): a row for every pair of rows with the same label
MergeInner(rows, frame) ==
    LET right(key) == SelectSeq(frame, LAMBDA r : r.name = key)
        joined(l) == [k \in 1..Len(right(l.name)) |->
                        [l EXCEPT !.local = right(l.name)[k].local,
                                  !.global = right(l.name)[k].global,
                                  !.fdr = right(l.name)[k].fdr]]
        RECURSIVE Cat(_)
        Cat(k) == IF k > Len(rows) THEN <<>> ELSE joined(rows[k]) \o Cat(k + 1)
    IN Cat(1)

\* lines 364-368: FDR, final merge, final sort in the direction the caller
\* asked for, return; of the locals of compute_against_reference only the
\* list of bootstrapped rows is kept, as the record of what was selected
FDRAndReturn ==
    /\ pc = "pvalues"
    /\ \E ascending \in (IF invocation = 1 THEN BOOLEAN
                         ELSE {features_ascending}) :
          /\ features_ascending' = ascending
          /\ \E sorted \in SortValues(MergeInner(scores.rows,
                                                 WithFDR(permutation_pvals_and_fdrs)),
                                      ascending) :
                scores' = [columns |-> scores.columns \cup
                                    {"Local P-value", "Global P-value", "FDR (BH)"},
                           rows |-> sorted]
    /\ permutation_pvals_and_fdrs' = <<>>
    /\ pc' = "returned"
    /\ UNCHANGED <<np_random, invocation, first_result, args, caller, features, ref,
                   indices_to_bootstrap, sampled_scores, shuffled_ref,
                   permutation_scores, indices_to_plot, metric_calls,
                   random_draws>>

\* lines 235-265: realign features with the returned table and choose the
\* rows to plot
RankReport ==
    /\ pc = "returned"
    /\ features' = [features EXCEPT !.index = IndexOf(scores.rows)]
    /\ indices_to_plot' = Select(scores.rows, features'.index, args.n_features)
    /\ pc' = "done"
    /\ UNCHANGED <<np_random, invocation, first_result, args, features_ascending, caller, ref, scores, indices_to_bootstrap,
                   sampled_scores, shuffled_ref, permutation_scores,
                   permutation_pvals_and_fdrs, metric_calls, random_draws>>

Next ==
    \/ RankTypeError
    \/ RankRaise
    \/ RankPrepare
    \/ ComputeRaise
    \/ ComputeScores
    \/ BootstrapSkip
    \/ BootstrapSelect
    \/ BootstrapReplicate
    \/ ConfidenceIntervals
    \/ Permute
    \/ PValues
    \/ FDRAndReturn
    \/ RankReport

Spec == Init /\ [][Next]_vars

\* ------------------------------------- two calls in a process that seeded
\* the calls explored after np.random.seed: one feature at each end, no
\* bootstrap or MaxSamplings replicates, one permutation
ArgumentsSeeded ==
    {a \in Arguments :
        \/ ~MetricAccepted(a.metric)
        \/ ~KeywordsAccepted(a)
        \/ /\ a.n_features = [kind |-> "count", n |-> 1]
           /\ a.n_samplings \in {0, MaxSamplings}
           /\ a.n_perms = 1
           /\ ~a.ref_sort}

\* the first call of a process that called np.random.seed just before it
InitSeeded ==
    /\ pc = "rank"
    /\ args \in ArgumentsSeeded
    /\ features_ascending = None
    /\ \E m \in Matrices, ri \in RefIndexes, rv \in RefValues :
          /\ \/ Range(ri) \cap Columns = {}
             \/ \E f \in FeatIds : \E c \in Range(ri) \cap Columns : m[f][c] # 0
          /\ caller = [features |-> [index |-> [k \in FeatIds |-> k],
                                     columns |-> [k \in 1..NCols |-> k],
                                     values |-> m],
                       ref |-> [index |-> ri, values |-> rv]]
    /\ features = caller.features
    /\ ref = caller.ref
    /\ scores = NoTable
    /\ indices_to_bootstrap = <<>>
    /\ sampled_scores = <<>>
    /\ shuffled_ref = <<>>
    /\ permutation_scores = <<>>
    /\ permutation_pvals_and_fdrs = <<>>
    /\ indices_to_plot = <<>>
    /\ metric_calls = 0
    /\ random_draws = 0
    /\ np_random \in Seeded
    /\ invocation = 1
    /\ first_result = NoResult

\* the frame of a new call with the same objects and the same arguments
NewCall ==
    /\ pc = "done"
    /\ invocation = 1
    /\ invocation' = 2
    /\ first_result' = [scores |-> scores, ref |-> ref]
    /\ pc' = "rank"
    /\ features' = caller.features
    /\ ref' = caller.ref
    /\ scores' = NoTable
    /\ indices_to_bootstrap' = <<>>
    /\ indices_to_plot' = <<>>
    /\ metric_calls' = 0
    /\ random_draws' = 0
    /\ UNCHANGED <<args, features_ascending, caller, sampled_scores, shuffled_ref,
                   permutation_scores, permutation_pvals_and_fdrs>>

\* the caller calls again: nothing in lines 178-368 sets or restores the
\* generator, the call draws from np.random where the first call left it
SecondCall ==
    /\ NewCall
    /\ UNCHANGED np_random

\* the caller calls np.random.seed with the same seed, then calls again
SeedAndSecondCall ==
    /\ NewCall
    /\ np_random.seeded
    /\ np_random' = [np_random EXCEPT !.pos = 0]

NextSeeded ==
    \/ RankTypeError
    \/ RankRaise
    \/ RankPrepare
    \/ ComputeRaise
    \/ ComputeScores
    \/ BootstrapSkip
    \/ BootstrapSelect
    \/ BootstrapReplicate
    \/ ConfidenceIntervals
    \/ Permute
    \/ PValues
    \/ FDRAndReturn
    \/ RankReport
    \/ SecondCall
    \/ SeedAndSecondCall

SpecSeeded == InitSeeded /\ [][NextSeeded]_vars

\* ------------------------------------------------------------ properties
\* the true score of feature f: the metric of its row against the reference
TrueScoreOf(f) ==
    information_coefficient(RowOf(features, f), SeriesValues(ref))

\* the step that fills the p-value frame, and the step that returns the table
PValuesStep == pc = "permute" /\ pc' = "pvalues"
ReturnStep == pc = "pvalues" /\ pc' = "returned"

Returned == pc \in {"returned", "done"}

\* the returned row of feature f (there is one, by C4 on the runs that return)
RowsNamed(f) == {k \in 1..Len(scores.rows) : scores.rows[k].name = f}

\* the returned table carries, label by label, the cells of the p-value frame
ReturnCarriesFrame ==
    ReturnStep =>
        \A k \in 1..Len(permutation_pvals_and_fdrs) :
            \A j \in 1..Len(scores'.rows) :
                scores'.rows[j].name = permutation_pvals_and_fdrs[k].name =>
                    /\ scores'.rows[j].local = permutation_pvals_and_fdrs[k].local
                    /\ scores'.rows[j].global = permutation_pvals_and_fdrs[k].global

\* C1: the Local P-value of every feature is the number of that feature's own
\* null scores (row k of the null matrix belongs to the k-th row of the
\* feature matrix) that exceed its true score, over n_perms, and 1/n_perms
\* when none does; the returned table reports that value.
C1_LocalPvalueFromOwnNulls ==
    [][/\ PValuesStep =>
            \A k \in 1..Len(features.index) :
                permutation_pvals_and_fdrs'[k].local =
                    LET own == Cardinality({i \in 1..args.n_perms :
                                   permutation_scores[k][i] >
                                       TrueScoreOf(features.index[k])})
                    IN IF own = 0 THEN 1 ELSE own
       /\ ReturnCarriesFrame]_vars

\* C2: the Global P-value of every feature is the number of null scores, over
\* all features and permutations, that exceed its true score, over
\* n_perms * n_features, and 1 over that when none does; the returned table
\* reports that value.
C2_GlobalPvaluePooled ==
    [][/\ PValuesStep =>
            \A k \in 1..Len(features.index) :
                permutation_pvals_and_fdrs'[k].global =
                    LET pooled == Cardinality(
                            {c \in (1..Len(features.index)) \X (1..args.n_perms) :
                                permutation_scores[c[1]][c[2]] >
                                    TrueScoreOf(features.index[k])})
                    IN IF pooled = 0 THEN 1 ELSE pooled
       /\ ReturnCarriesFrame]_vars

\* a returned table whose globals came from a floor and from a real count
C2_Witness ==
    /\ pc = "returned"
    /\ args.n_perms = MaxPerms
    /\ \E j, k \in 1..Len(scores.rows) :
          /\ scores.rows[j].metric < scores.rows[k].metric
          /\ scores.rows[j].global > scores.rows[k].global
          /\ scores.rows[k].global > 1

\* C3: in the returned table every Local P-value is k/n_perms with
\* 1 <= k <= n_perms and every Global P-value is k/(n_perms * n_features)
\* with 1 <= k <= n_perms * n_features: never zero, never missing.
C3_PvaluesInRange ==
    Returned =>
        \A k \in 1..Len(scores.rows) :
            /\ scores.rows[k].local \in 1..args.n_perms
            /\ scores.rows[k].global \in 1..(args.n_perms * Len(features.index))

\* a returned table with a floored p-value next to a p-value of 1
C3_Witness ==
    /\ pc = "returned"
    /\ args.n_perms = MaxPerms
    /\ \E j, k \in 1..Len(scores.rows) :
          /\ scores.rows[j].local = args.n_perms
          /\ scores.rows[k].local = 1
          /\ scores.rows[k].global = 1
          /\ scores.rows[j].global = args.n_perms * Len(features.index)

\* the score table has exactly the labels of the feature matrix, each once
OneRowPerFeature ==
    /\ Len(scores.rows) = Len(features.index)
    /\ Range(IndexOf(scores.rows)) = Range(features.index)

\* C4: from the merge of the margins on, and in the returned table, the score
\* table has exactly one row per row of the feature matrix, and a call with
\* an accepted metric and a common column returns such a table.
C4_OneRowPerFeature ==
    /\ pc \in {"permute", "pvalues", "returned", "done"} => OneRowPerFeature
    /\ pc = "raised" =>
          \/ ~KeywordsAccepted(args)
          \/ ~MetricAccepted(args.metric)
          \/ Range(features.columns) \cap Range(ref.index) = {}

\* the q-value Benjamini-Hochberg gives the p-value g/den among the p-values
\* of `table`: the least p_h * n / #{p <= p_h} over the p_h >= g/den, at most 1
BHCandidates(table, g, den) ==
    {FracMin(<<1, 1>>,
             <<table[h].global * Len(table),
               Cardinality({i \in 1..Len(table) : table[i].global <= table[h].global})
                   * den>>) :
        h \in {i \in 1..Len(table) : table[i].global >= g}}

FracEq(x, y) == x[1] * y[2] = y[1] * x[2]

\* C5: in the returned table every q-value is at least the global p-value of
\* its row and at most 1, q-values are ordered as the p-values are, and the
\* q-value of a row is the Benjamini-Hochberg value of that row's p-value.
C5_FDRMonotoneAndOwn ==
    Returned =>
        LET den == args.n_perms * Len(features.index)
            t == scores.rows
        IN \A a \in 1..Len(t) :
              /\ FracLeq(<<t[a].global, den>>, t[a].fdr)
              /\ FracLeq(t[a].fdr, <<1, 1>>)
              /\ \A b \in 1..Len(t) :
                    t[a].global <= t[b].global => FracLeq(t[a].fdr, t[b].fdr)
              /\ \E c \in BHCandidates(t, t[a].global, den) : FracEq(t[a].fdr, c)
              /\ \A c \in BHCandidates(t, t[a].global, den) : FracLeq(t[a].fdr, c)

\* a returned table where the running minimum lowers a q-value below 1: two
\* rows with different p-values share a q-value
C5_Witness ==
    /\ pc = "returned"
    /\ \E a, b \in 1..Len(scores.rows) :
          /\ scores.rows[a].global < scores.rows[b].global
          /\ FracEq(scores.rows[a].fdr, scores.rows[b].fdr)
          /\ ~FracEq(scores.rows[b].fdr, <<1, 1>>)

\* the metric value the table gives feature f
ScoreIn(table, f) == table[CHOOSE k \in 1..Len(table) : table[k].name = f].metric

\* `sel` lists 2n distinct features: n that no other feature scores below
\* and n others that no other feature scores above
TwoTails(sel, table, n) ==
    LET S == Range(sel)
        all == Range(IndexOf(table))
    IN /\ Len(sel) = 2 * n
       /\ Cardinality(S) = 2 * n
       /\ S \subseteq all
       /\ \E L \in SUBSET S :
             /\ Cardinality(L) = n
             /\ \A f \in L : \A g \in all \ L : ScoreIn(table, f) <= ScoreIn(table, g)
             /\ \A f \in S \ L : \A g \in all \ (S \ L) :
                    ScoreIn(table, f) >= ScoreIn(table, g)

CountCase ==
    /\ args.n_features.kind = "count"
    /\ Len(scores.rows) >= 2 * args.n_features.n

\* C6: with a count n and a score table of at least 2n rows, the rows chosen
\* for the bootstrap and the rows chosen for the plot are 2n distinct
\* features, the n lowest and the n highest by metric value.
C6_CountSelectionTwoTails ==
    /\ pc = "bootstrap" /\ CountCase =>
          TwoTails(indices_to_bootstrap, scores.rows, args.n_features.n)
    /\ pc = "done" /\ CountCase =>
          TwoTails(indices_to_plot, scores.rows, args.n_features.n)

\* a finished call that bootstrapped and plotted the two ends of a table of
\* three different scores
C6_Witness ==
    /\ pc = "done"
    /\ CountCase
    /\ "MoE" \in scores.columns
    /\ Len(scores.rows) = NFeat
    /\ \A j, k \in 1..Len(scores.rows) :
          j # k => scores.rows[j].metric # scores.rows[k].metric
    /\ Len(indices_to_plot) = 2

HalfQuantile == args.n_features = [kind |-> "quantile", num |-> 1, den |-> 2]

\* C7: with the quantile 0.5 every feature of the score table is chosen, for
\* the bootstrap and for the plot.
C7_HalfQuantileSelectsAll ==
    /\ pc = "bootstrap" /\ HalfQuantile =>
          /\ Range(indices_to_bootstrap) = Range(IndexOf(scores.rows))
          /\ Len(indices_to_bootstrap) = Len(scores.rows)
    /\ pc = "done" /\ HalfQuantile =>
          /\ Range(indices_to_plot) = Range(IndexOf(scores.rows))
          /\ Len(indices_to_plot) = Len(scores.rows)

\* a finished call with the quantile 0.5 on three different scores, the
\* middle one being the median itself
C7_Witness ==
    /\ pc = "done"
    /\ HalfQuantile
    /\ "MoE" \in scores.columns
    /\ Len(indices_to_plot) = NFeat
    /\ \A j, k \in 1..Len(scores.rows) :
          j # k => scores.rows[j].metric # scores.rows[k].metric

\* n_samplings < 2, or ceil(0.632 * number of columns) < 3: some k < 3 is
\* already at least 0.632 times the number of columns
TooFewForBootstrap ==
    \/ args.n_samplings < 2
    \/ \E k \in 0..2 : 1000 * k >= 632 * Len(features.columns)

AfterBootstrapStage == pc \in {"permute", "pvalues", "returned", "done"}

C9_MarginOnlyForSelection ==
    [][(pc' \in {"permute", "pvalues", "returned"} /\ "MoE" \in scores'.columns) =>
          \A k \in 1..Len(scores'.rows) :
              LET row == scores'.rows[k]
              IN /\ row.moe # NaN <=> row.name \in Range(indices_to_bootstrap)
                 /\ row.moe = NaN \/ row.moe >= 0
                 /\ row.metric = TrueScoreOf(row.name)
                 /\ pc' = "returned" => row.local >= 1 /\ row.global >= 1]_vars

\* a returned table where one feature has a margin and another has none
C9_Witness ==
    /\ pc = "returned"
    /\ "MoE" \in scores.columns
    /\ \E j, k \in 1..Len(scores.rows) :
          /\ scores.rows[j].moe = NaN
          /\ scores.rows[k].moe > 0

\* C10: a call whose metric name is not information_coef never gets past the
\* metric check: the metric is not invoked, nothing is drawn from the random
\* source, and no score table exists.
C10_UnknownMetricFailsAtOnce ==
    args.metric.name # "information_coef" =>
        /\ pc \in {"rank", "compute", "raised"}
        /\ metric_calls = 0
        /\ random_draws = 0
        /\ scores = NoTable
        /\ indices_to_plot = <<>>

\* the ValueError of the metric check, raised for a foreign name on inputs
\* that share columns
C10_Witness ==
    /\ pc = "raised"
    /\ args.metric.name = "pearson"
    /\ Range(features.columns) \cap Range(ref.index) # {}

\* the names the caller's matrix columns and reference index have in common
CommonColumns == Range(caller.features.columns) \cap Range(caller.ref.index)

\* the score of the caller's row f over the common columns, each cell with
\* the reference value of the same name
PairedScore(f) ==
    LET common == SetToSortedSeq(CommonColumns)
    IN information_coefficient(
           [k \in 1..Len(common) |-> caller.features.values[f][common[k]]],
           [k \in 1..Len(common) |-> caller.ref.values[common[k]]])

\* C11: without a common column name the call raises before any score is
\* computed, any draw is made or any row is chosen for the plot; with common
\* names the matrix and the reference are cut to exactly those names, in the
\* same order, and every score pairs the cells of a name with the reference
\* value of that name, whether the reference was sorted or not.
C11_CommonColumnsOnly ==
    /\ CommonColumns = {} =>
          /\ pc \in {"rank", "raised"}
          /\ metric_calls = 0
          /\ random_draws = 0
          /\ scores = NoTable
          /\ indices_to_plot = <<>>
    /\ CommonColumns # {} /\ pc \notin {"rank", "raised"} =>
          /\ Range(features.columns) = CommonColumns
          /\ Len(features.columns) = Cardinality(CommonColumns)
          /\ features.columns = ref.index
          /\ \A k \in 1..Len(scores.rows) :
                scores.rows[k].metric = PairedScore(scores.rows[k].name)

\* a scored call whose reference had a foreign name and was sorted, so that
\* the columns are no longer in the caller's order
C11_Witness ==
    /\ pc = "scored"
    /\ args.ref_sort
    /\ Len(features.columns) = NCols - 1
    /\ features.columns # SetToSortedSeq(CommonColumns)
    /\ \E k \in 1..Len(scores.rows) : scores.rows[k].metric > 0

\* what a returned table says of each feature that does not depend on the
\* order of its rows: the global p-value and the q-value
GlobalAndFDR(table) ==
    {<<table.rows[k].name, table.rows[k].global, table.rows[k].fdr>> :
        k \in 1..Len(table.rows)}

\* C12: a second call of the same process, with the same seed given to the
\* generator and the same objects and arguments, starts from the generator
\* state the first call started from, and (the column set being walked in the
\* same order) returns the global p-values and q-values the first call
\* returned.
C12_SameSeedSameOutputs ==
    invocation = 2 =>
        /\ pc = "rank" => np_random.pos = 0
        /\ Returned /\ ref = first_result.ref =>
              GlobalAndFDR(scores) = GlobalAndFDR(first_result.scores)

\* the stages of compute_against_reference, whose features and ref are the
\* objects its caller passed
InCompute == pc \in {"compute", "scored", "bootstrap", "permute", "pvalues"}

\* C13: no step changes the matrix and the reference of the caller of
\* rank_features_against_reference, and no step of compute_against_reference
\* changes the matrix and the reference it was passed, whether the call
\* returns or raises.
C13_InputsNotMutated ==
    [][/\ caller' = caller
       /\ InCompute => features' = features /\ ref' = ref]_vars

\* the permutation stage holds a shuffled array that differs from the
\* reference it was copied from, in a call that also dropped a row and
\* sorted the reference
C13_Witness ==
    /\ pc = "permute"
    /\ shuffled_ref # <<>>
    /\ shuffled_ref # SeriesValues(ref)
    /\ args.ref_sort
    /\ ref.index # caller.ref.index
    /\ Len(features.index) < Len(caller.features.index)

\* the cells the table and the p-value frame hold for a label before the
\* final merge and sort
CellsBeforeReturn(f) ==
    LET q == WithFDR(permutation_pvals_and_fdrs)
    IN {[name |-> f, metric |-> scores.rows[j].metric, moe |-> scores.rows[j].moe,
         local |-> q[k].local, global |-> q[k].global, fdr |-> q[k].fdr] :
           j \in {i \in 1..Len(scores.rows) : scores.rows[i].name = f},
           k \in {i \in 1..Len(q) : q[i].name = f}}

\* C14: the returned table runs upwards by metric value when ascending is
\* True and downwards when it is False, and each of its rows holds the metric
\* value, margin, p-values and q-value its feature had before the final sort.
C14_FinalOrder ==
    [][ReturnStep =>
          /\ \A k \in 1..(Len(scores'.rows) - 1) :
                IF features_ascending'
                THEN scores'.rows[k].metric <= scores'.rows[k + 1].metric
                ELSE scores'.rows[k].metric >= scores'.rows[k + 1].metric
          /\ Len(scores'.rows) = Len(scores.rows)
          /\ \A k \in 1..Len(scores'.rows) :
                /\ scores'.rows[k] \in CellsBeforeReturn(scores'.rows[k].name)
                /\ scores'.rows[k].metric = TrueScoreOf(scores'.rows[k].name)]_vars

\* a table returned in descending order whose rows differ in metric value,
\* margin and global p-value
C14_Witness ==
    /\ pc = "returned"
    /\ ~features_ascending
    /\ "MoE" \in scores.columns
    /\ \E j, k \in 1..Len(scores.rows) :
          /\ scores.rows[j].metric > scores.rows[k].metric
          /\ scores.rows[j].moe # scores.rows[k].moe
          /\ scores.rows[j].global # scores.rows[k].global

\* C15: in a returned table a feature that scores at least as high as
\* another has a global p-value no larger; a feature with the highest metric
\* value has the lowest global p-value of the table.
C15_GlobalPvalueAntitone ==
    Returned =>
        \A j, k \in 1..Len(scores.rows) :
            scores.rows[j].metric >= scores.rows[k].metric =>
                scores.rows[j].global <= scores.rows[k].global

\* a returned table where the higher of two scores has the strictly lower
\* global p-value
C15_Witness ==
    /\ pc = "returned"
    /\ \E j, k \in 1..Len(scores.rows) :
          /\ scores.rows[j].metric > scores.rows[k].metric
          /\ scores.rows[j].global < scores.rows[k].global

\* the null scores that count against a score under a comparison direction
CountAgainst(direction, nulls, score) ==
    Cardinality({k \in 1..Len(nulls) :
                    IF direction = "less_is_better" THEN nulls[k] < score
                                                      ELSE nulls[k] > score})

\* C16: a call may name its comparison direction, and the null scores that
\* count toward a p-value are then those strictly greater than the true score
\* under greater_is_better and those strictly less under less_is_better.
\* (The local p-value is counted with the comparison of the global one; the
\* row of nulls it reads is the subject of C1.)
C16_ComparisonDirectionConfigurable ==
    [][/\ (pc = "rank" /\ CommonColumns # {} /\
           args.comparison_direction \in Directions) => pc' = "compute"
       /\ (PValuesStep /\ args.comparison_direction \in Directions) =>
             \A k \in 1..Len(permutation_pvals_and_fdrs') :
                 permutation_pvals_and_fdrs'[k].global =
                     Floored(CountAgainst(args.comparison_direction,
                                          Flatten(permutation_scores),
                                          TrueScoreOf(permutation_pvals_and_fdrs'[k].name)))]_vars

\* a count n that the feature rows cannot fill twice over
FewRows ==
    /\ args.n_features.kind = "count"
    /\ Len(features.index) < 2 * args.n_features.n

\* C17: with a count n and fewer than 2n rows, the rows chosen for the
\* bootstrap and for the plot name no feature twice and are no more than the
\* table has, and the replicate table and the table of margins have one row
\* for each chosen feature.
C17_FewRowsNoDuplicates ==
    /\ pc = "bootstrap" /\ FewRows =>
          /\ IsInjective(indices_to_bootstrap)
          /\ Len(indices_to_bootstrap) <= Len(features.index)
          /\ Len(sampled_scores) = Cardinality(Range(indices_to_bootstrap))
          /\ Len(confidence_intervals) = Cardinality(Range(indices_to_bootstrap))
    /\ pc = "done" /\ FewRows =>
          /\ IsInjective(indices_to_plot)
          /\ Len(indices_to_plot) <= Len(features.index)

\* the p-value frame that the null scores at hand give when the table walked
\* is `stage1`, the score table as the bootstrap stage found it
FrameWithoutBootstrap(stage1) ==
    [k \in 1..Len(features.index) |->
        LET i == CHOOSE j \in 1..Len(stage1) : stage1[j].name = features.index[k]
        IN [name |-> features.index[k],
            local |-> LocalPval(permutation_scores, i, stage1[i].metric),
            global |-> GlobalPval(permutation_scores, stage1[i].metric),
            fdr |-> NaN]]

\* C18: for the null scores of the call, the local and global p-values (and
\* with them the q-values) are those that the same call would get from its
\* sorted score table had the bootstrap been skipped, whether the bootstrap
\* ran or not and whatever it selected.
C18_PvaluesIndependentOfBootstrap ==
    [][PValuesStep =>
          \E stage1 \in SortValues(TrueScores(features, ref), TRUE) :
              permutation_pvals_and_fdrs' = FrameWithoutBootstrap(stage1)]_vars

\* ceil(0.632 * n): the least whole number that is not below 0.632 * n
CeilOfShare(n) == CHOOSE k \in 0..n : 1000 * k >= 632 * n /\ 1000 * (k - 1) < 632 * n

\* the step that adds one replicate to the replicate table
ReplicateStep == pc = "bootstrap" /\ sampled_scores' # sampled_scores

\* C19: every replicate is the score, for each selected feature, of the
\* caller's cells and the caller's reference values at one list of
\* ceil(0.632 * columns) names drawn from the common columns, the same list
\* and the same order for the feature and for the reference; there are never
\* more than n_samplings replicates.
C19_ReplicateDrawsAndPairing ==
    [][ReplicateStep =>
          /\ \E drawn \in [1..CeilOfShare(Cardinality(CommonColumns)) -> CommonColumns] :
                \A k \in 1..Len(sampled_scores') :
                    /\ sampled_scores'[k].name = indices_to_bootstrap[k]
                    /\ sampled_scores'[k].samples =
                          Append(sampled_scores[k].samples,
                                 information_coefficient(
                                     [j \in DOMAIN drawn |->
                                         caller.features.values[indices_to_bootstrap[k]][drawn[j]]],
                                     [j \in DOMAIN drawn |-> caller.ref.values[drawn[j]]]))
          /\ \A k \in 1..Len(sampled_scores') :
                Len(sampled_scores'[k].samples) <= args.n_samplings]_vars

\* a replicate that scores a feature above its score on all the columns,
\* which takes a column drawn more than once
C19_Witness ==
    /\ pc = "bootstrap"
    /\ \E k \in 1..Len(sampled_scores) :
          /\ Len(sampled_scores[k].samples) = args.n_samplings
          /\ sampled_scores[k].samples[1] > TrueScoreOf(sampled_scores[k].name)

\* C20: in a call that bootstrapped, the rows chosen for the plot from the
\* returned table are the rows that were chosen for the bootstrap from the
\* score table, for a count and for a quantile, and whether the table was
\* returned in ascending or in descending order.
C20_SameSelectionRule ==
    pc = "done" /\ "MoE" \in scores.columns =>
        Range(indices_to_plot) = Range(indices_to_bootstrap)

====
